---- MODULE Spec2Model ----
(***************************************************************************)
(* FlavourQuest (src/FlavourQuest.py): the retry decorator, the            *)
(* fetch-and-display handler with its module globals, and the              *)
(* RecipeRepository over the PostgreSQL table "recipes" with its observer  *)
(* list.  The program is single threaded: every handler runs to completion *)
(* on the Tk event loop before the next one starts.                        *)
(***************************************************************************)
EXTENDS Integers, Sequences, FiniteSets, TLC

VARIABLES
    pc,               \* "idle", or "retry" while retry_logic's loop is running
    frame,            \* the locals of the running retry_logic call
    retryResult,      \* how the last retry_logic call ended
    current_recipes,  \* module global current_recipes
    sort_order,       \* module global sort_order
    output_text,      \* the recipes rendered in the text widget, in order
    table,            \* the rows of the table recipes, in insertion order
    nextId,           \* the next value of the SERIAL column id
    closed,           \* whether close() has closed cursor and connection
    observers,        \* RecipeRepository.observers
    lastCall          \* the last repository call: arguments, outcome, effects

retryVars == <<pc, frame, retryResult, current_recipes, sort_order, output_text>>
storeVars == <<table, nextId, closed, observers, lastCall>>
vars == <<pc, frame, retryResult, current_recipes, sort_order, output_text,
          table, nextId, closed, observers, lastCall>>

(***************************************************************************)
(* Bounds of the model.                                                    *)
(***************************************************************************)
MaxAttempts == 3   \* largest attempts= given to retry() for the plain operation
MaxId == 2         \* largest id the sequence of the SERIAL column hands out
MaxObs == 2        \* longest observer list

(***************************************************************************)
(* Python and SQL values.  A string is the sequence of its characters; a   *)
(* value is tagged "str", "none" (None / NULL) or "missing" (no such key). *)
(***************************************************************************)
Str(s) == [tag |-> "str", s |-> s]
None == [tag |-> "none", s |-> <<>>]
Missing == [tag |-> "missing", s |-> <<>>]

\* The recipe dicts the API may deliver (src/FlavourQuest.py:115-116 puts no
\* check on them): well formed ones, two with equal titles, empty strings,
\* a null title, and dicts lacking a key.
Recipe(t, ing, ins, url) ==
    [title |-> t, extendedIngredients |-> ing, instructions |-> ins, sourceUrl |-> url]

Ingredients(seq) == [tag |-> "list", s |-> [i \in 1..Len(seq) |-> [original |-> seq[i]]]]

R_A1 == Recipe(Str(<<"A">>), Ingredients(<<  <<"a">>, <<"b", ",", " ", "c">>  >>),
               Str(<<"x">>), Str(<<"u">>))
R_A2 == Recipe(Str(<<"A">>), Ingredients(<<  <<"a">>  >>), Missing, Str(<<"v">>))
R_B == Recipe(Str(<<"B">>), Ingredients(<< >>), None, Str(<<"u">>))
R_Empty == Recipe(Str(<<>>), Ingredients(<<  <<>>, <<"a">>, <<"a">>  >>), Str(<<>>), Str(<<>>))
R_NullTitle == Recipe(None, Ingredients(<<  <<"a">>  >>), Str(<<"x">>), Str(<<"u">>))
R_NoTitle == Recipe(Missing, Ingredients(<<  <<"a">>  >>), Str(<<"x">>), Str(<<"u">>))
R_NoUrl == Recipe(Str(<<"B">>), Ingredients(<<  <<"a">>  >>), Str(<<"x">>), Missing)

RecipePool == {R_A1, R_A2, R_B, R_Empty, R_NullTitle, R_NoTitle, R_NoUrl}

\* data['recipes'] of the responses that parse (line 116)
Bodies ==
    { <<>>, <<R_A1>>, <<R_B, R_A1>>, <<R_A2, R_Empty>>, <<R_NullTitle>>,
      <<R_NullTitle, R_B>>, <<R_NoTitle>>, <<R_A1, R_NoUrl>> }

(***************************************************************************)
(* str.join (lines 76, 135): the items with the separator between them.    *)
(***************************************************************************)
\* Join with the separator left out
RECURSIVE Join_NoSeparator(_, _)
Join_NoSeparator(sep, items) ==
    IF Len(items) = 0 THEN <<>>
    ELSE items[1] \o Join_NoSeparator(sep, Tail(items))

RECURSIVE Join(_, _)
Join(sep, items) ==
    IF Len(items) = 0 THEN <<>>
    ELSE IF Len(items) = 1 THEN items[1]
    ELSE items[1] \o sep \o Join(sep, Tail(items))

CommaSpace == <<",", " ">>

\* [ingredient['original'] for ingredient in recipe['extendedIngredients']]
Originals(recipe) ==
    [i \in 1..Len(recipe.extendedIngredients.s) |-> recipe.extendedIngredients.s[i].original]

(***************************************************************************)
(* sorted(current_recipes, key=title, reverse=...) (line 132).             *)
(***************************************************************************)
Ord(c) ==
    CASE c = " " -> 32 [] c = "," -> 44 [] c = "A" -> 65 [] c = "B" -> 66
      [] c = "a" -> 97 [] c = "b" -> 98 [] c = "c" -> 99 [] c = "u" -> 117
      [] c = "v" -> 118 [] c = "x" -> 120 [] OTHER -> 0

RECURSIVE StrLess(_, _)
StrLess(a, b) ==
    IF Len(b) = 0 THEN FALSE
    ELSE IF Len(a) = 0 THEN TRUE
    ELSE IF Ord(a[1]) # Ord(b[1]) THEN Ord(a[1]) < Ord(b[1])
    ELSE StrLess(Tail(a), Tail(b))

\* x goes after every element that does not sort after it: the sort is stable
RECURSIVE InsertSorted(_, _, _)
InsertSorted(x, seq, reverse) ==
    IF Len(seq) = 0 THEN <<x>>
    ELSE IF (IF reverse THEN StrLess(seq[1].title.s, x.title.s)
                        ELSE StrLess(x.title.s, seq[1].title.s))
         THEN <<x>> \o seq
         ELSE <<seq[1]>> \o InsertSorted(x, Tail(seq), reverse)

RECURSIVE Sorted(_, _)
Sorted(seq, reverse) ==
    IF Len(seq) = 0 THEN <<>>
    ELSE InsertSorted(seq[Len(seq)], Sorted(SubSeq(seq, 1, Len(seq) - 1), reverse), reverse)

(***************************************************************************)
(* display_recipes (lines 126-149): clears the widget, sorts the working   *)
(* set by title and renders one block per recipe.  sorted() raises         *)
(* KeyError for a recipe without 'title' and TypeError when None takes     *)
(* part in a comparison; the f-string of line 135 raises KeyError for a    *)
(* recipe without 'extendedIngredients' or 'sourceUrl', after the blocks   *)
(* before it were inserted.                                                *)
(***************************************************************************)
RenderFails(recipe) ==
    recipe.extendedIngredients = Missing \/ recipe.sourceUrl = Missing

RECURSIVE RenderedPrefix(_)
RenderedPrefix(seq) ==
    IF Len(seq) = 0 \/ RenderFails(seq[1]) THEN <<>>
    ELSE <<seq[1]>> \o RenderedPrefix(Tail(seq))

display_recipes(recipes, order) ==
    IF \E i \in 1..Len(recipes) : recipes[i].title = Missing
    THEN [err |-> "KeyError", out |-> <<>>]
    ELSE IF Len(recipes) >= 2 /\ \E i \in 1..Len(recipes) : recipes[i].title = None
    THEN [err |-> "TypeError", out |-> <<>>]
    ELSE LET sorted_recipes == Sorted(recipes, order = "DESC")
             shown == RenderedPrefix(sorted_recipes)
         IN  [err |-> IF Len(shown) < Len(sorted_recipes) THEN "KeyError" ELSE "None",
              out |-> shown]

(***************************************************************************)
(* What one invocation of the decorated function does.  The plain          *)
(* operation "op" stands for any func given to retry(): it returns a value *)
(* or raises an Exception.  The body of fetch_and_display_recipes (lines   *)
(* 110-117) gets a response: requests.get raises, raise_for_status raises, *)
(* json() raises, the body has no 'recipes', or it has a list of recipes.  *)
(***************************************************************************)
OpOutcomes == [ok : BOOLEAN, v : {"x1", "x2"}]

Responses ==
    [kind : {"ConnectionError", "HTTPError", "ValueError", "KeyError"}, recipes : {<<>>}]
    \cup [kind : {"ok"}, recipes : Bodies]

\* lines 112-117: the effect of the body on the globals, and its outcome
fetch_and_display_recipes(resp, current, order, shown) ==
    IF resp.kind # "ok"
    THEN [err |-> resp.kind, current |-> current, out |-> shown]
    ELSE LET d == display_recipes(resp.recipes, order)
         IN  [err |-> d.err, current |-> resp.recipes, out |-> d.out]

FetchAttempts == 3

NoResult == [func |-> "none", attempts |-> 0, outcome |-> "none", v |-> "None",
             hist |-> <<>>, pre |-> <<>>]
NoFrame == [func |-> "none", attempts |-> 0, i |-> 0, last_exception |-> "None",
            hist |-> <<>>, pre |-> <<>>]

\* retry_logic is entered (lines 20-22) for func = the plain operation
CallRetry(n) ==
    /\ pc = "idle"
    /\ pc' = "retry"
    /\ frame' = [func |-> "op", attempts |-> n, i |-> 0, last_exception |-> "None",
                 hist |-> <<>>, pre |-> current_recipes]
    /\ retryResult' = NoResult
    /\ UNCHANGED <<current_recipes, sort_order, output_text>>
    /\ UNCHANGED storeVars

\* a fetch button is pressed (lines 225-238): retry_logic is entered for the
\* decorated fetch_and_display_recipes
FetchButton ==
    /\ pc = "idle"
    /\ pc' = "retry"
    /\ frame' = [func |-> "fetch", attempts |-> FetchAttempts, i |-> 0,
                 last_exception |-> "None", hist |-> <<>>, pre |-> current_recipes]
    /\ retryResult' = NoResult
    /\ UNCHANGED <<current_recipes, sort_order, output_text>>
    /\ UNCHANGED storeVars

Finish(outcome, v, hist) ==
    /\ pc' = "idle"
    /\ frame' = NoFrame
    /\ retryResult' = [func |-> frame.func, attempts |-> frame.attempts,
                       outcome |-> outcome, v |-> v, hist |-> hist, pre |-> frame.pre]

\* Failed keeping the first exception instead of the last
Failed_KeepFirst(e) ==
    /\ pc' = "retry"
    /\ frame' = [frame EXCEPT !.i = @ + 1,
                              !.last_exception = IF @ = "None" THEN e ELSE @,
                              !.hist = Append(@, [ok |-> FALSE, v |-> e])]
    /\ UNCHANGED retryResult

\* lines 24-29, the except branch: remember the exception, sleep, loop on
Failed(e) ==
    /\ pc' = "retry"
    /\ frame' = [frame EXCEPT !.i = @ + 1, !.last_exception = e,
                              !.hist = Append(@, [ok |-> FALSE, v |-> e])]
    /\ UNCHANGED retryResult

\* InvokeOp with the result of line 25 dropped instead of returned
InvokeOp_NoReturn(o) ==
    /\ pc = "retry" /\ frame.func = "op" /\ frame.i < frame.attempts
    /\ pc' = "retry"
    /\ frame' = [frame EXCEPT !.i = @ + 1, !.hist = Append(@, o),
                              !.last_exception = IF o.ok THEN @ ELSE o.v]
    /\ UNCHANGED <<retryResult, current_recipes, sort_order, output_text>>
    /\ UNCHANGED storeVars

\* one iteration of the loop of line 23 around the plain operation
InvokeOp(o) ==
    /\ pc = "retry" /\ frame.func = "op" /\ frame.i < frame.attempts
    /\ IF o.ok THEN Finish("returned", o.v, Append(frame.hist, o))   \* line 25
               ELSE Failed(o.v)
    /\ UNCHANGED <<current_recipes, sort_order, output_text>>
    /\ UNCHANGED storeVars

\* one iteration of the loop of line 23 around the body of lines 110-117
InvokeFetch(resp) ==
    /\ pc = "retry" /\ frame.func = "fetch" /\ frame.i < frame.attempts
    /\ LET r == fetch_and_display_recipes(resp, current_recipes, sort_order, output_text)
       IN  /\ current_recipes' = r.current
           /\ output_text' = r.out
           /\ IF r.err = "None"
              THEN Finish("returned", "None", Append(frame.hist, [ok |-> TRUE, v |-> "None"]))
              ELSE Failed(r.err)
    /\ UNCHANGED sort_order
    /\ UNCHANGED storeVars

\* line 30: the loop is over, raise last_exception; raise None (attempts = 0)
\* is a TypeError
RaiseLast ==
    /\ pc = "retry" /\ frame.i >= frame.attempts
    /\ Finish("raised",
              IF frame.last_exception = "None" THEN "TypeError" ELSE frame.last_exception,
              frame.hist)
    /\ UNCHANGED <<current_recipes, sort_order, output_text>>
    /\ UNCHANGED storeVars

\* toggle_sort_order (lines 120-123)
toggle_sort_order ==
    /\ pc = "idle"
    /\ sort_order' = IF sort_order = "ASC" THEN "DESC" ELSE "ASC"
    /\ output_text' = display_recipes(current_recipes, sort_order').out
    /\ UNCHANGED <<pc, frame, retryResult, current_recipes>>
    /\ UNCHANGED storeVars

InitRetry ==
    /\ pc = "idle"
    /\ frame = NoFrame
    /\ retryResult = NoResult
    /\ current_recipes = <<>>      \* line 209
    /\ sort_order = "ASC"          \* line 14
    /\ output_text = <<>>

(***************************************************************************)
(* RecipeRepository (lines 55-106).  The connection is in autocommit mode  *)
(* (line 58): a statement that raises leaves the table as it was, one that *)
(* returns has been applied.                                               *)
(***************************************************************************)
Observers == {"o1", "o2"}

Event(what, who, seen) == [what |-> what, who |-> who, seen |-> seen]

Raised(err, t, nid) == [err |-> err, table |-> t, nextId |-> nid, log |-> <<>>]

\* execute_insert on a table without the NOT NULL constraints
execute_insert_Nullable(t, nid, isClosed, dbFail, title, ingredients, instructions, source_url) ==
    IF isClosed THEN Raised("InterfaceError", t, nid)
    ELSE IF dbFail THEN Raised("OperationalError", t, nid)
    ELSE [err |-> "None",
          table |-> Append(t, [id |-> nid, title |-> title, ingredients |-> ingredients,
                               instructions |-> instructions, source_url |-> source_url]),
          nextId |-> nid + 1,
          log |-> <<>>]

\* cursor.execute of the INSERT of line 78 under the schema of lines 65-71: a
\* closed cursor raises InterfaceError, a lost connection OperationalError, a
\* NULL in a NOT NULL column IntegrityError (the sequence of id has advanced
\* by then); '' is not NULL and is stored.
execute_insert(t, nid, isClosed, dbFail, title, ingredients, instructions, source_url) ==
    IF isClosed THEN Raised("InterfaceError", t, nid)
    ELSE IF dbFail THEN Raised("OperationalError", t, nid)
    ELSE IF title = None \/ ingredients = None \/ source_url = None
    THEN Raised("IntegrityError", t, nid + 1)
    ELSE [err |-> "None",
          table |-> Append(t, [id |-> nid, title |-> title, ingredients |-> ingredients,
                               instructions |-> instructions, source_url |-> source_url]),
          nextId |-> nid + 1,
          log |-> <<>>]

\* DeleteWhereTitle stopping at the first row that matches
RECURSIVE DeleteFirstWhereTitle(_, _)
DeleteFirstWhereTitle(t, title) ==
    IF Len(t) = 0 THEN <<>>
    ELSE IF title.tag = "str" /\ t[1].title = title
         THEN Tail(t)
         ELSE <<t[1]>> \o DeleteFirstWhereTitle(Tail(t), title)

\* cursor.execute of the DELETE of line 89: WHERE title = %s
RECURSIVE DeleteWhereTitle(_, _)
DeleteWhereTitle(t, title) ==
    IF Len(t) = 0 THEN <<>>
    ELSE IF title.tag = "str" /\ t[1].title = title
         THEN DeleteWhereTitle(Tail(t), title)
         ELSE <<t[1]>> \o DeleteWhereTitle(Tail(t), title)

execute_delete(t, nid, isClosed, dbFail, title) ==
    IF isClosed THEN Raised("InterfaceError", t, nid)
    ELSE IF dbFail THEN Raised("OperationalError", t, nid)
    ELSE [err |-> "None", table |-> DeleteWhereTitle(t, title), nextId |-> nid, log |-> <<>>]

\* notify_observers (lines 104-106): update() on every entry of the list, in
\* list order; each observer sees the table as it is then
notify_observers(obs, t) ==
    <<Event("notify", "-", t)>> \o [i \in 1..Len(obs) |-> Event("update", obs[i], t)]

\* 'No instructions provided.' (line 77), kept as one token
Placeholder == <<"No instructions provided.">>

\* save_recipe with the observers notified before the INSERT is executed
save_recipe_NotifyFirst(recipe, t, nid, isClosed, obs, dbFail) ==
    IF recipe.extendedIngredients = Missing \/ recipe.title = Missing
       \/ recipe.sourceUrl = Missing
    THEN Raised("KeyError", t, nid)
    ELSE LET x == execute_insert(t, nid, isClosed, dbFail, recipe.title,
                                 Str(Join(CommaSpace, Originals(recipe))),
                                 IF recipe.instructions = Missing THEN Str(Placeholder)
                                 ELSE recipe.instructions,
                                 recipe.sourceUrl)
         IN  [x EXCEPT !.log = notify_observers(obs, t)
                               \o IF x.err = "None"
                                  THEN <<Event("execute", "-", x.table),
                                         Event("showinfo", "-", x.table)>>
                                  ELSE <<>>]

\* save_recipe (lines 75-81)
save_recipe(recipe, t, nid, isClosed, obs, dbFail) ==
    IF recipe.extendedIngredients = Missing THEN Raised("KeyError", t, nid)
    ELSE LET ingredients == Str(Join(CommaSpace, Originals(recipe)))
             instructions == IF recipe.instructions = Missing THEN Str(Placeholder)
                             ELSE recipe.instructions
         IN  IF recipe.title = Missing \/ recipe.sourceUrl = Missing
             THEN Raised("KeyError", t, nid)
             ELSE LET x == execute_insert(t, nid, isClosed, dbFail, recipe.title,
                                          ingredients, instructions, recipe.sourceUrl)
                  IN  IF x.err # "None" THEN x
                      ELSE [x EXCEPT !.log = <<Event("execute", "-", x.table),
                                               Event("showinfo", "-", x.table)>>
                                             \o notify_observers(obs, x.table)]

\* delete_recipe (lines 88-92); recipe is a tuple of get_all_recipes
delete_recipe(recipe, t, nid, isClosed, obs, dbFail) ==
    LET x == execute_delete(t, nid, isClosed, dbFail, recipe[1])
    IN  IF x.err # "None" THEN x
        ELSE [x EXCEPT !.log = <<Event("execute", "-", x.table),
                                 Event("showinfo", "-", x.table)>>
                               \o notify_observers(obs, x.table)]

\* the tuple the SELECT of line 84 gives for a row
RowTuple(row) == <<row.title, row.ingredients, row.instructions, row.source_url>>

\* get_all_recipes on a cursor that answers after close()
get_all_recipes_IgnoreClosed(t, isClosed, dbFail, perm) ==
    IF dbFail THEN [err |-> "OperationalError", ret |-> <<>>]
    ELSE [err |-> "None", ret |-> [i \in 1..Len(t) |-> RowTuple(t[perm[i]])]]

\* get_all_recipes (lines 83-86): the SELECT has no ORDER BY, so the rows come
\* in an order of the server's choosing, perm
get_all_recipes(t, isClosed, dbFail, perm) ==
    IF isClosed THEN [err |-> "InterfaceError", ret |-> <<>>]
    ELSE IF dbFail THEN [err |-> "OperationalError", ret |-> <<>>]
    ELSE [err |-> "None", ret |-> [i \in 1..Len(t) |-> RowTuple(t[perm[i]])]]

Perms(n) == { f \in [1..n -> 1..n] : \A i, j \in 1..n : f[i] = f[j] => i = j }

Call(op, arg, err, ret, log) ==
    [op |-> op, arg |-> arg, err |-> err, ret |-> ret, log |-> log, preTable |-> table]

\* save_recipe_callback (lines 152-153) with any recipe
SaveRecipe(recipe, dbFail) ==
    /\ pc = "idle"
    /\ nextId <= MaxId
    /\ LET r == save_recipe(recipe, table, nextId, closed, observers, dbFail)
       IN  /\ table' = r.table
           /\ nextId' = r.nextId
           /\ lastCall' = Call("save_recipe", recipe, r.err, <<>>, r.log)
    /\ UNCHANGED <<closed, observers>>
    /\ UNCHANGED retryVars

\* delete_recipe_callback (lines 179-182), confirmed, with any tuple
DeleteRecipe(recipe, dbFail) ==
    /\ pc = "idle"
    /\ LET r == delete_recipe(recipe, table, nextId, closed, observers, dbFail)
       IN  /\ table' = r.table
           /\ nextId' = r.nextId
           /\ lastCall' = Call("delete_recipe", recipe, r.err, <<>>, r.log)
    /\ UNCHANGED <<closed, observers>>
    /\ UNCHANGED retryVars

GetAllRecipes(dbFail, perm) ==
    /\ pc = "idle"
    /\ LET r == get_all_recipes(table, closed, dbFail, perm)
       IN  lastCall' = Call("get_all_recipes", "-", r.err, r.ret, <<>>)
    /\ UNCHANGED <<table, nextId, closed, observers>>
    /\ UNCHANGED retryVars

\* close (lines 94-96); closing a closed cursor or connection is no error
Close ==
    /\ pc = "idle"
    /\ closed' = TRUE
    /\ lastCall' = Call("close", "-", "None", <<>>, <<>>)
    /\ UNCHANGED <<table, nextId, observers>>
    /\ UNCHANGED retryVars

\* register_observer (lines 98-99)
RegisterObserver(o) ==
    /\ pc = "idle"
    /\ Len(observers) < MaxObs
    /\ observers' = Append(observers, o)
    /\ lastCall' = Call("register_observer", o, "None", <<>>, <<>>)
    /\ UNCHANGED <<table, nextId, closed>>
    /\ UNCHANGED retryVars

\* list.remove (line 102): the first entry equal to o goes, ValueError if none
RECURSIVE ListRemove(_, _)
ListRemove(seq, o) ==
    IF Len(seq) = 0 THEN <<>>
    ELSE IF seq[1] = o THEN Tail(seq)
    ELSE <<seq[1]>> \o ListRemove(Tail(seq), o)

\* remove_observer (lines 101-102)
RemoveObserver(o) ==
    /\ pc = "idle"
    /\ observers' = ListRemove(observers, o)
    /\ lastCall' = Call("remove_observer", o,
                        IF \E i \in 1..Len(observers) : observers[i] = o
                        THEN "None" ELSE "ValueError", <<>>, <<>>)
    /\ UNCHANGED <<table, nextId, closed>>
    /\ UNCHANGED retryVars

\* the tuples a Delete button may carry: those of recipes that can be stored
DeleteArgs ==
    { <<r.title, Str(Join(CommaSpace, Originals(r))),
        IF r.instructions = Missing THEN Str(Placeholder) ELSE r.instructions,
        r.sourceUrl>> :
      r \in { q \in RecipePool : q.title.tag = "str" /\ q.sourceUrl.tag = "str" } }

\* __init__ (lines 56-61) on a table that is empty or just created
InitStore ==
    /\ table = <<>>
    /\ nextId = 1
    /\ closed = FALSE
    /\ observers = <<>>
    /\ lastCall = [op |-> "none", arg |-> "-", err |-> "None", ret |-> <<>>, log |-> <<>>,
                   preTable |-> <<>>]

Init == InitRetry /\ InitStore

NextRetry ==
    \/ \E n \in 0..MaxAttempts : CallRetry(n)
    \/ \E o \in OpOutcomes : InvokeOp(o)
    \/ FetchButton
    \/ \E resp \in Responses : InvokeFetch(resp)
    \/ RaiseLast
    \/ toggle_sort_order

NextStore ==
    \/ \E recipe \in RecipePool, dbFail \in BOOLEAN : SaveRecipe(recipe, dbFail)
    \/ \E recipe \in DeleteArgs, dbFail \in BOOLEAN : DeleteRecipe(recipe, dbFail)
    \/ \E dbFail \in BOOLEAN : \E perm \in Perms(Len(table)) : GetAllRecipes(dbFail, perm)
    \/ Close
    \/ \E o \in Observers : RegisterObserver(o)
    \/ \E o \in Observers : RemoveObserver(o)

\* the retry decorator and the fetch handler
SpecRetry == Init /\ [][NextRetry]_vars

\* the repository
Spec == Init /\ [][NextStore]_vars

(***************************************************************************)
(* Properties of the retry decorator (checked under SpecRetry).            *)
(***************************************************************************)
RetryDone == pc = "idle" /\ retryResult.outcome # "none"

\* C1: with attempts = n >= 1, a call whose every invocation of the wrapped
\* operation failed has invoked it exactly n times, and raises to the caller
\* the error of the n-th invocation.
C1_AlwaysFailingInvokedNTimes ==
    (/\ RetryDone
     /\ retryResult.attempts >= 1
     /\ \A k \in 1..Len(retryResult.hist) : ~retryResult.hist[k].ok)
    => /\ Len(retryResult.hist) = retryResult.attempts
       /\ retryResult.outcome = "raised"
       /\ retryResult.v = retryResult.hist[retryResult.attempts].v

\* a call with attempts = 3 has failed three times, first and last time with
\* different errors, and has raised
C1_Witness ==
    /\ RetryDone
    /\ retryResult.func = "op" /\ retryResult.attempts = 3
    /\ retryResult.outcome = "raised"
    /\ Len(retryResult.hist) = 3
    /\ retryResult.hist[1].v # retryResult.hist[3].v

\* C2: when the operation fails on invocations 1..k-1 and succeeds on
\* invocation k <= attempts, the call returns the result of invocation k and
\* has invoked the operation exactly k times; while the loop runs, no
\* invocation so far has succeeded.
C2_FirstSuccessReturned ==
    /\ pc = "retry" => \A k \in 1..Len(frame.hist) : ~frame.hist[k].ok
    /\ RetryDone =>
         \A k \in 1..Len(retryResult.hist) :
             retryResult.hist[k].ok =>
                 /\ k = Len(retryResult.hist)
                 /\ k <= retryResult.attempts
                 /\ retryResult.outcome = "returned"
                 /\ retryResult.v = retryResult.hist[k].v

\* a call with attempts = 3 has returned the result of its second invocation
C2_Witness ==
    /\ RetryDone
    /\ retryResult.func = "op" /\ retryResult.attempts = 3
    /\ retryResult.outcome = "returned"
    /\ Len(retryResult.hist) = 2
    /\ ~retryResult.hist[1].ok

\* C7: when fetch_and_display_recipes raises after its retries, whatever step
\* of the body failed, current_recipes is what it was before the call.
C7_FailedFetchKeepsRecipes ==
    (RetryDone /\ retryResult.func = "fetch" /\ retryResult.outcome = "raised")
    => current_recipes = retryResult.pre

(***************************************************************************)
(* Properties of the repository (checked under Spec).                      *)
(***************************************************************************)
Mutation == lastCall.op \in {"save_recipe", "delete_recipe"}

Count(log, what) == Cardinality({ i \in 1..Len(log) : log[i].what = what })

C4_EachObserverOnce ==
    (lastCall.op = "save_recipe" /\ lastCall.err = "None")
    => \A o \in Observers :
           Cardinality({ i \in 1..Len(lastCall.log) :
                           lastCall.log[i].what = "update" /\ lastCall.log[i].who = o })
           = IF \E k \in 1..Len(observers) : observers[k] = o THEN 1 ELSE 0

\* C5: a successful delete of the tuple of a stored row leaves no row equal
\* to that tuple and leaves every other row in the table; a delete whose title
\* no stored row has raises nothing and leaves the table unchanged.
C5_DeleteIsSetDifference ==
    (lastCall.op = "delete_recipe" /\ ~closed)
    => IF \E i \in 1..Len(lastCall.preTable) : RowTuple(lastCall.preTable[i]) = lastCall.arg
       THEN lastCall.err = "None" =>
              /\ \A i \in 1..Len(table) : RowTuple(table[i]) # lastCall.arg
              /\ \A i \in 1..Len(lastCall.preTable) :
                     RowTuple(lastCall.preTable[i]) # lastCall.arg
                     => \E j \in 1..Len(table) : table[j] = lastCall.preTable[i]
       ELSE (\A i \in 1..Len(lastCall.preTable) : lastCall.preTable[i].title # lastCall.arg[1])
            => table = lastCall.preTable

\* the place where item i of a ', '-joined text starts
RECURSIVE Offset(_, _)
Offset(items, i) ==
    IF i = 1 THEN 1 ELSE Offset(items, i - 1) + Len(items[i - 1]) + 2

\* text is the items in order with ", " between each two
IsCommaJoined(text, items) ==
    IF Len(items) = 0 THEN text = <<>>
    ELSE /\ Len(text) = Offset(items, Len(items)) + Len(items[Len(items)]) - 1
         /\ \A i \in 1..Len(items) :
                /\ \A k \in 1..Len(items[i]) : text[Offset(items, i) + k - 1] = items[i][k]
                /\ i < Len(items) =>
                       /\ text[Offset(items, i) + Len(items[i])] = ","
                       /\ text[Offset(items, i) + Len(items[i]) + 1] = " "

\* C6: after save_recipe(recipe) succeeds, get_all_recipes, in whatever order
\* it lists the rows, holds a tuple with the recipe's title and source_url,
\* its ingredients' 'original' strings joined by ', ' in order, and its
\* instructions, or the placeholder when the recipe has none.
C6_SaveRoundTrip ==
    (lastCall.op = "save_recipe" /\ lastCall.err = "None")
    => \A perm \in Perms(Len(table)) :
           LET got == get_all_recipes(table, closed, FALSE, perm)
           IN  /\ got.err = "None"
               /\ \E i \in 1..Len(got.ret) :
                      /\ got.ret[i][1] = lastCall.arg.title
                      /\ got.ret[i][4] = lastCall.arg.sourceUrl
                      /\ got.ret[i][2].tag = "str"
                      /\ IsCommaJoined(got.ret[i][2].s,
                                       [k \in 1..Len(lastCall.arg.extendedIngredients.s) |->
                                           lastCall.arg.extendedIngredients.s[k].original])
                      /\ got.ret[i][3] =
                             IF lastCall.arg.instructions.tag = "missing"
                             THEN [tag |-> "str", s |-> <<"No instructions provided.">>]
                             ELSE lastCall.arg.instructions

\* a recipe with two ingredients, one of them holding ", " itself, is saved
C6_Witness ==
    /\ lastCall.op = "save_recipe" /\ lastCall.err = "None"
    /\ Len(lastCall.arg.extendedIngredients.s) = 2
    /\ Len(table) = 2

\* C8: every stored row has a non-empty title and a non-empty source_url.
C8_NonEmptyTitleAndUrl ==
    \A i \in 1..Len(table) :
        /\ table[i].title.tag = "str" /\ Len(table[i].title.s) > 0
        /\ table[i].source_url.tag = "str" /\ Len(table[i].source_url.s) > 0

\* C8 as amended: every stored row has a title and a source_url that are not
\* NULL, and ingredients that are not NULL.
C8_NonNullTitleAndUrl ==
    \A i \in 1..Len(table) :
        /\ table[i].title.tag = "str"
        /\ table[i].source_url.tag = "str"
        /\ table[i].ingredients.tag = "str"

\* save_recipe was given a recipe whose title is None, and the table, which
\* holds a row with an empty title, refused it
C8_Witness ==
    /\ lastCall.op = "save_recipe" /\ lastCall.arg.title.tag = "none"
    /\ lastCall.err = "IntegrityError"
    /\ \E i \in 1..Len(table) : table[i].title = [tag |-> "str", s |-> <<>>]

C9_AfterClose ==
    /\ lastCall.op = "close" => (closed /\ lastCall.err = "None")
    /\ (closed /\ lastCall.op \in {"save_recipe", "get_all_recipes", "delete_recipe"})
       => /\ lastCall.err # "None"
          /\ table = lastCall.preTable
          /\ lastCall.ret = <<>>
          /\ lastCall.log = <<>>

\* C9: close() succeeds, the repository stays closed from then on, and every
\* save_recipe, get_all_recipes or delete_recipe on the closed repository
\* raises, leaves the table unchanged and notifies no observer.
C9_ClosedStoreFails == [](C9_AfterClose) /\ [][closed => closed']_vars

\* get_all_recipes was called on a closed repository whose table holds a row
\* and has observers
C9_Witness ==
    /\ closed /\ lastCall.op = "get_all_recipes"
    /\ Len(table) > 0 /\ Len(observers) > 0

\* C10: a successful delete_recipe(row) leaves no row with row's title, and
\* leaves exactly the rows of any other title, each as it was.
C10_DeleteByTitle ==
    (lastCall.op = "delete_recipe" /\ lastCall.err = "None")
    => /\ \A i \in 1..Len(table) : table[i].title # lastCall.arg[1]
       /\ { table[i] : i \in 1..Len(table) }
          = { lastCall.preTable[i] : i \in { k \in 1..Len(lastCall.preTable) :
                                              lastCall.preTable[k].title # lastCall.arg[1] } }
       /\ \A i, j \in 1..Len(table) : table[i].id = table[j].id => i = j

\* two rows of one title and different source_url were stored, and one delete
\* has left neither
C10_Witness ==
    /\ lastCall.op = "delete_recipe" /\ lastCall.err = "None"
    /\ Len(lastCall.preTable) = 2
    /\ lastCall.preTable[1].title = lastCall.preTable[2].title
    /\ lastCall.preTable[1].source_url # lastCall.preTable[2].source_url
    /\ table = <<>>

====
